---- MODULE Spec2Model ----
(***************************************************************************)
(* txt2tex.c: a Signal text export is read line by line and written out as *)
(* a LaTeX document; Attachment: lines are resolved against the files of   *)
(* ./attachments by exact name, then by size.                              *)
(*                                                                         *)
(* Text is modelled as the program sees it: a string is a sequence of byte *)
(* values 0..255, a C buffer is the sequence of the bytes written to it so *)
(* far (terminator included), and every literal below is the byte sequence *)
(* of the C string literal named in the comment beside it.                 *)
(*                                                                         *)
(* A long long is modelled as its decimal numeral, [neg, mag] with mag the *)
(* digits of the magnitude, most significant first and without leading     *)
(* zeros: the values of the type do not fit the integers of the checker.   *)
(*                                                                         *)
(* Memory the program never wrote holds no value the source determines.    *)
(* A read of such a byte yields Indet, and the output holds Indet where    *)
(* the program writes such a byte and IndetRun where what it writes, how   *)
(* much of it included, depends on such bytes.                             *)
(***************************************************************************)
EXTENDS Integers, Sequences, FiniteSets, TLC

(* ------------------------------ bounds -------------------------------- *)

\* The short transcripts hold at most this many lines.
MaxLines == 2

\* The allocator grants at most this many calls of realloc before it
\* refuses one.
MaxReallocs == 2

(* ------------------------- program constants -------------------------- *)

MaxPathLen == 4096
\* char line[8192]
LineBufSize == 8192
\* char attMime[128]
MimeCap == 128
\* char ext[16]
ExtCap == 16
\* the first capacity of the attachment list
FirstCapacity == 64

(* --------------------------- sequence helpers -------------------------- *)

Min(a, b) == IF a <= b THEN a ELSE b

MinOf(S) == CHOOSE i \in S : \A j \in S : i <= j

Take(s, n) == SubSeq(s, 1, Min(n, Len(s)))

Drop(s, n) == SubSeq(s, n + 1, Len(s))

\* The first index >= from at which s holds byte c; 0 when there is none.
IndexOf(s, c, from) ==
  LET I == {i \in from..Len(s) : s[i] = c}
  IN  IF I = {} THEN 0 ELSE MinOf(I)

\* The last index at which s holds byte c; 0 when there is none.
LastIndexOf(s, c) ==
  LET I == {i \in 1..Len(s) : s[i] = c /\ \A j \in (i + 1)..Len(s) : s[j] # c}
  IN  IF I = {} THEN 0 ELSE MinOf(I)

RECURSIVE Flatten(_)
Flatten(ss) == IF ss = <<>> THEN <<>> ELSE Flatten(Take(ss, Len(ss) - 1)) \o ss[Len(ss)]

(* ------------------------------- libc ---------------------------------- *)

\* isspace in the C locale: space, \t \n \v \f \r
isspace(c) == c = 32 \/ c \in 9..13

\* tolower in the C locale
tolower(c) == IF c \in 65..90 THEN c + 32 ELSE c

isdigit(c) == c \in 48..57

\* strlen of the C string a buffer holds (every buffer here is terminated).
strlen(buf) == IndexOf(buf, 0, 1) - 1

\* The C string a buffer holds: its bytes before the first NUL.
CStr(buf) == SubSeq(buf, 1, strlen(buf))

\* snprintf(dst, cap, "%s", s): at most cap - 1 bytes are kept.
snprintfS(cap, s) == Take(s, cap - 1)

\* The number of leading bytes of s that isspace accepts.
SkipSpace(s) ==
  LET I == {i \in 1..Len(s) : ~isspace(s[i])}
  IN  IF I = {} THEN Len(s) ELSE MinOf(I) - 1

\* The number of leading bytes of s that are decimal digits.
DigitRun(s) ==
  LET I == {i \in 1..Len(s) : ~isdigit(s[i])}
  IN  IF I = {} THEN Len(s) ELSE MinOf(I) - 1

\* The digits of a decimal numeral written as text.
DigitsOf(txt) == [i \in 1..Len(txt) |-> txt[i] - 48]

\* The digits ds without their leading zeros; one digit is always left.
RECURSIVE StripZeros(_)
StripZeros(ds) ==
  IF Len(ds) > 1 /\ ds[1] = 0 THEN StripZeros(Drop(ds, 1)) ELSE ds

\* a < b for two magnitudes without leading zeros.
MagLess(a, b) ==
  \/ Len(a) < Len(b)
  \/ /\ Len(a) = Len(b)
     /\ \E i \in 1..Len(a) : a[i] < b[i] /\ \A j \in 1..(i - 1) : a[j] = b[j]

\* LLONG_MAX and the magnitude of LLONG_MIN
LLongMaxMag == DigitsOf(<<57,50,50,51,51,55,50,48,51,54,56,53,52,55,55,53,56,48,55>>)  \* "9223372036854775807"

LLongMinMag == DigitsOf(<<57,50,50,51,51,55,50,48,51,54,56,53,52,55,55,53,56,48,56>>)  \* "9223372036854775808"

\* The long long a small natural number converts to.
RECURSIVE NatMag(_)
NatMag(n) == IF n < 10 THEN <<n>> ELSE Append(NatMag(n \div 10), n % 10)

LLOfNat(n) == [neg |-> FALSE, mag |-> NatMag(n)]

\* (long long)-1
MinusOne == [neg |-> TRUE, mag |-> <<1>>]

\* The long long %lld makes of a sign and a run of digit characters: the
\* value of the numeral, or LLONG_MAX / LLONG_MIN when it is out of range.
DecVal(neg, ds) ==
  LET m     == StripZeros(DigitsOf(ds))
      limit == IF neg THEN LLongMinMag ELSE LLongMaxMag
      mag   == IF MagLess(limit, m) THEN limit ELSE m
  IN  [neg |-> neg /\ mag # <<0>>, mag |-> mag]

\* sscanf(s, "%lld", &v) with v == -1 before the call: white space is
\* skipped, a sign is optional, at least one digit is needed.  The return
\* value n is EOF (-1) when the input ends before anything but white space
\* was read, 0 when what follows is no number, 1 with the value stored in v.
sscanfLld(s) ==
  LET t    == Drop(s, SkipSpace(s))
      sign == IF t # <<>> /\ t[1] \in {43, 45} THEN 1 ELSE 0
      u    == Drop(t, sign)
      d    == DigitRun(u)
  IN  IF t = <<>> THEN [n |-> -1, v |-> MinusOne]
      ELSE IF d = 0 THEN [n |-> 0, v |-> MinusOne]
      ELSE [n |-> 1, v |-> DecVal(sign = 1 /\ t[1] = 45, Take(u, d))]

(* --------------------------- string functions -------------------------- *)

\* strncmp(s, prefix, strlen(prefix)) == 0
startsWith(s, prefix) ==
  Len(s) >= Len(prefix) /\ SubSeq(s, 1, Len(prefix)) = prefix

startsWithIgnoreCase(s, prefix) ==
  /\ Len(s) >= Len(prefix)
  /\ \A i \in 1..Len(prefix) : tolower(s[i]) = tolower(prefix[i])

\* The length trimRight leaves of a string without NUL bytes.
TrimLen(s) ==
  LET S == {n \in 0..Len(s) : \A j \in (n + 1)..Len(s) : isspace(s[j])}
  IN  MinOf(S)

\* trimRight on a buffer: the trailing white space of its string becomes NUL.
trimRight(buf) ==
  LET n == strlen(buf)
      m == TrimLen(SubSeq(buf, 1, n))
  IN  [i \in 1..Len(buf) |-> IF i > m /\ i <= n THEN 0 ELSE buf[i]]

\* trimRight on a local copy that nothing reads past its terminator.
trimRightStr(s) == Take(s, TrimLen(s))

ImageExts ==
  { <<112,110,103>>, <<106,112,103>>, <<106,112,101,103>>, <<103,105,102>>, <<98,109,112>>, <<116,105,102>>, <<116,105,102,102>> }  \* "png" "jpg" "jpeg" "gif" "bmp" "tif" "tiff"

hasImageExtension(name) ==
  LET dot == LastIndexOf(name, 46)
      e   == Drop(name, dot)
  IN  IF dot = 0 \/ dot = 1 THEN FALSE
      ELSE IF Len(e) >= ExtCap THEN FALSE
      ELSE [i \in 1..Len(e) |-> tolower(e[i])] \in ImageExts

isImageMime(mime) == startsWith(mime, <<105,109,97,103,101,47>>)  \* "image/"

(* --------------------------- attachment list --------------------------- *)

\* attachmentListInit
EmptyList == [items |-> <<>>, count |-> 0, capacity |-> 0]

\* attachmentListPush; realloc succeeds or not as the allocator decides.
\* [list |-> the list after the call, oom |-> fatal() was called].
attachmentListPush(list, item, reallocOk) ==
  LET grow   == list.count >= list.capacity
      newCap == IF list.capacity = 0 THEN FirstCapacity ELSE list.capacity * 2
  IN  IF grow /\ ~reallocOk THEN [list |-> list, oom |-> TRUE]
      ELSE [list |-> [items    |-> Append(list.items, item),
                      count    |-> list.count + 1,
                      capacity |-> IF grow THEN newCap ELSE list.capacity],
            oom  |-> FALSE]

\* attachmentListFree
attachmentListFree(list) == EmptyList

\* One directory entry becomes a list item when it is neither "." nor "..",
\* stat succeeds on it and it is a regular file.
IsListed(ent) ==
  /\ ent.name # <<46>>  \* "."
  /\ ent.name # <<46,46>>  \* ".."
  /\ ent.statOk
  /\ ent.regular

\* One turn of the readdir loop of loadAttachmentsDir, on the entry ent.
\* realloc is called once each time the list grows; st.okCalls is the
\* number of calls it still grants before it returns NULL.
loadStep(ent, st) ==
  IF ~IsListed(ent) THEN st
  ELSE LET f    == [fileName |-> snprintfS(MaxPathLen, ent.name),
                    fileSize |-> LLOfNat(ent.size),
                    used     |-> FALSE]
           grow == st.list.count >= st.list.capacity
           r    == attachmentListPush(st.list, f, st.okCalls > 0)
       IN  [list    |-> r.list,
            oom     |-> r.oom,
            okCalls |-> IF grow /\ ~r.oom THEN st.okCalls - 1 ELSE st.okCalls]

\* The turns of the loop for the entries a..b-1 in readdir's order, left
\* as soon as fatal() was called; the range is halved only to keep the
\* evaluation shallow.
RECURSIVE loadRange(_, _, _, _)
loadRange(ents, a, b, st) ==
  IF a >= b \/ st.oom THEN st
  ELSE IF b - a = 1 THEN loadStep(ents[a], st)
  ELSE LET mid == (a + b) \div 2
       IN  loadRange(ents, mid, b, loadRange(ents, a, mid, st))

\* The readdir loop of loadAttachmentsDir over the entries from the k-th on.
loadLoop(ents, k, list, okCalls) ==
  LET st == loadRange(ents, k, Len(ents) + 1,
                      [list |-> list, oom |-> FALSE, okCalls |-> okCalls])
  IN  [list |-> st.list, oom |-> st.oom]

(* ------------------------------ escaping ------------------------------- *)

utf8CharLen(c) ==
  IF c \div 128 = 0 THEN 1
  ELSE IF c \div 32 = 6 THEN 2
  ELSE IF c \div 16 = 14 THEN 3
  ELSE IF c \div 8 = 30 THEN 4
  ELSE 1

\* The switch of writeLatexEscaped on one ASCII byte.
EscapeAscii(c) ==
  CASE c = 92  -> <<92,116,101,120,116,98,97,99,107,115,108,97,115,104,123,125>>  \* "\\textbackslash{}"
    [] c = 123 -> <<92,123>>  \* "\\{"
    [] c = 125 -> <<92,125>>  \* "\\}"
    [] c = 35  -> <<92,35>>  \* "\\#"
    [] c = 36  -> <<92,36>>  \* "\\$"
    [] c = 37  -> <<92,37>>  \* "\\%"
    [] c = 38  -> <<92,38>>  \* "\\&"
    [] c = 95  -> <<92,95>>  \* "\\_"
    [] c = 94  -> <<92,116,101,120,116,97,115,99,105,105,99,105,114,99,117,109,123,125>>  \* "\\textasciicircum{}"
    [] c = 126 -> <<92,116,101,120,116,97,115,99,105,105,116,105,108,100,101,123,125>>  \* "\\textasciitilde{}"
    [] OTHER   -> <<c>>

\* What a read of a byte the program never wrote yields.
Indet == 256

\* In the output: a run of bytes, of any length, that depends on bytes the
\* program never wrote.
IndetRun == 257

\* The byte at offset i (from 1) of the memory that starts with `line`: buf
\* is the part of the buffer written so far; the rest of the buffer and what
\* lies behind the buffer were never written by the program.
MemAt(buf, i) == IF i <= Len(buf) THEN buf[i] ELSE Indet

\* One turn of the while loop of writeLatexEscaped with the cursor at p.
\* On a byte that is not determined neither is anything the loop does from
\* there on: the turn ends the evaluation with IndetRun for what is written.
EscapeStep(buf, p) ==
  LET c == MemAt(buf, p)
  IN  IF c = Indet THEN [out |-> <<IndetRun>>, pos |-> p, halt |-> TRUE]
      ELSE IF c = 0 THEN [out |-> <<>>, pos |-> p, halt |-> TRUE]
      ELSE IF c < 128 THEN [out |-> EscapeAscii(c), pos |-> p + 1, halt |-> FALSE]
      ELSE LET len == utf8CharLen(c)
           IN  [out  |-> <<92,101,109,111,106,105,123>> \o [k \in 1..len |-> MemAt(buf, p + k - 1)] \o <<125>>,  \* "\\emoji{" "}"
                pos  |-> p + len,
                halt |-> FALSE]

\* The while loop of writeLatexEscaped for the cursor positions in a..b-1,
\* entered with the cursor at p >= a.  The turns are taken in the order of
\* the loop; the range is halved only to keep the evaluation shallow.
RECURSIVE EscapeRange(_, _, _, _)
EscapeRange(buf, a, b, p) ==
  IF p >= b THEN [out |-> <<>>, pos |-> p, halt |-> FALSE]
  ELSE IF b - a = 1 THEN EscapeStep(buf, p)
  ELSE LET mid == (a + b) \div 2
           l   == EscapeRange(buf, a, mid, p)
       IN  IF l.halt THEN l
           ELSE LET r == EscapeRange(buf, mid, b, l.pos)
                IN  [out |-> l.out \o r.out, pos |-> r.pos, halt |-> r.halt]

\* writeLatexEscaped(out, line): [out |-> what is written, pos |-> where the
\* cursor stopped, or where it first stood on a byte never written].
writeLatexEscaped(buf) ==
  LET r == EscapeRange(buf, 1, Len(buf) + 1, 1)
  IN  IF r.halt THEN r
      ELSE LET e == EscapeStep(buf, r.pos)
           IN  [out |-> r.out \o e.out, pos |-> e.pos, halt |-> e.halt]

(* ------------------------ attachment references ----------------------- *)

\* What parseAttachmentLine leaves in its out parameters before it parses.
NoRef == [hasName |-> FALSE, name |-> <<>>, mime |-> <<>>, bytes |-> MinusOne]

parseAttachmentLine(line) ==
  IF ~startsWith(line, <<65,116,116,97,99,104,109,101,110,116,58>>) THEN NoRef  \* "Attachment:"
  ELSE
    LET t     == Drop(line, Len(<<65,116,116,97,99,104,109,101,110,116,58>>))  \* "Attachment:"
        p     == Drop(t, SkipSpace(t))
        paren == IndexOf(p, 40, 1)
    IN
    IF paren = 0 THEN NoRef
    ELSE
      LET namePart == trimRightStr(Take(SubSeq(p, 1, paren - 1), MaxPathLen - 1))
          hasName  == namePart # <<110,111,32,102,105,108,101,110,97,109,101>> /\ namePart # <<>>  \* "no filename"
          named    == [NoRef EXCEPT !.hasName = hasName,
                                    !.name = IF hasName THEN snprintfS(MaxPathLen, namePart)
                                             ELSE <<>>]
          inside   == Drop(p, paren)
          endParen == IndexOf(inside, 41, 1)
      IN
      IF endParen = 0 THEN named
      ELSE
        LET inner == trimRightStr(Take(SubSeq(inside, 1, endParen - 1), MaxPathLen - 1))
            comma == IndexOf(inner, 44, 1)
        IN
        IF comma = 0 THEN named
        ELSE
          LET mime  == trimRightStr(Take(inner, comma - 1))
              rest0 == Drop(inner, comma)
              rest  == Drop(rest0, SkipSpace(rest0))
              sc    == sscanfLld(rest)
          IN  [named EXCEPT !.mime  = snprintfS(MimeCap, mime),
                            !.bytes = IF sc.n = 1 THEN sc.v ELSE MinusOne]

(* ------------------------------ matching ------------------------------- *)
\* Indices are those of the C code: 0-based, -1 for none; items[i + 1] is
\* list->items[i].

RECURSIVE nameScan(_, _, _)
nameScan(list, name, i) ==
  IF i >= list.count THEN -1
  ELSE IF list.items[i + 1].used THEN nameScan(list, name, i + 1)
  ELSE IF list.items[i + 1].fileName = name THEN i
  ELSE nameScan(list, name, i + 1)

findAttachmentByExactName(list, name) == nameScan(list, name, 0)

\* The first pass of findAttachmentBySize.
RECURSIVE imageSizeScan(_, _, _)
imageSizeScan(list, size, i) ==
  IF i >= list.count THEN -1
  ELSE IF list.items[i + 1].used THEN imageSizeScan(list, size, i + 1)
  ELSE IF list.items[i + 1].fileSize = size /\ hasImageExtension(list.items[i + 1].fileName)
       THEN i
  ELSE imageSizeScan(list, size, i + 1)

\* The second pass of findAttachmentBySize.
RECURSIVE sizeScan(_, _, _)
sizeScan(list, size, i) ==
  IF i >= list.count THEN -1
  ELSE IF list.items[i + 1].used THEN sizeScan(list, size, i + 1)
  ELSE IF list.items[i + 1].fileSize = size THEN i
  ELSE sizeScan(list, size, i + 1)

\* findAttachmentBySize as it would be without the tests of `used`.
findAttachmentBySize_IgnoreUsed(list, size, preferImage) ==
  LET fresh == [list EXCEPT !.items = [i \in 1..Len(list.items) |->
                                         [list.items[i] EXCEPT !.used = FALSE]]]
      first == IF preferImage THEN imageSizeScan(fresh, size, 0) ELSE -1
  IN  IF first >= 0 THEN first ELSE sizeScan(fresh, size, 0)

\* findAttachmentBySize as it would be without its first pass.
findAttachmentBySize_NoImagePass(list, size, preferImage) == sizeScan(list, size, 0)

findAttachmentBySize(list, size, preferImage) ==
  LET first == IF preferImage THEN imageSizeScan(list, size, 0) ELSE -1
  IN  IF first >= 0 THEN first ELSE sizeScan(list, size, 0)

\* Resolve as it would be with the size consulted before the name.
Resolve_SizeFirst(list, ref) ==
  LET bySize == IF ~ref.bytes.neg
                THEN findAttachmentBySize(list, ref.bytes, isImageMime(ref.mime))
                ELSE -1
  IN  IF bySize < 0 /\ ref.hasName
      THEN findAttachmentByExactName(list, ref.name)
      ELSE bySize

\* main: the index an Attachment: line resolves to.
Resolve(list, ref) ==
  LET byName == IF ref.hasName THEN findAttachmentByExactName(list, ref.name) ELSE -1
  IN  IF byName < 0 /\ ~ref.bytes.neg
      THEN findAttachmentBySize(list, ref.bytes, isImageMime(ref.mime))
      ELSE byName

\* MarkUsed as it would be if every file of the matched file's size were
\* taken with it.
MarkUsed_SameSize(list, idx) ==
  [list EXCEPT !.items = [i \in 1..Len(list.items) |->
     IF list.items[i].fileSize = list.items[idx + 1].fileSize
     THEN [list.items[i] EXCEPT !.used = TRUE]
     ELSE list.items[i]]]

\* main: list.items[idx].used = 1
MarkUsed(list, idx) == [list EXCEPT !.items[idx + 1].used = TRUE]

(* ------------------------------ fragments ------------------------------ *)

writeImageInclude(relPath) ==
     <<10,92,112,97,114,92,110,111,105,110,100,101,110,116,10>>  \* "\n\\par\\noindent\n"
  \o <<92,105,110,99,108,117,100,101,103,114,97,112,104,105,99,115,91,119,105,100,116,104,61,92,108,105,110,101,119,105,100,116,104,44,104,101,105,103,104,116,61,48,46,57,92,116,101,120,116,104,101,105,103,104,116,44,107,101,101,112,97,115,112,101,99,116,114,97,116,105,111,93,123,92,100,101,116,111,107,101,110,105,122,101,123>>  \* "\\includegraphics[width=\\linewidth,height=0.9\\textheight,keepaspectratio]{\\detokenize{"
  \o relPath
  \o <<125,125,10>>  \* "}}\n"
  \o <<92,112,97,114,92,109,101,100,115,107,105,112,10,10>>  \* "\\par\\medskip\n\n"

writeNonImageAttachment(relPath) ==
     <<10,92,98,101,103,105,110,123,113,117,111,116,101,125,10>>  \* "\n\\begin{quote}\n"
  \o <<92,116,101,120,116,98,102,123,65,116,116,97,99,104,109,101,110,116,58,125,32,92,100,101,116,111,107,101,110,105,122,101,123>>  \* "\\textbf{Attachment:} \\detokenize{"
  \o relPath
  \o <<125,10>>  \* "}\n"
  \o <<92,101,110,100,123,113,117,111,116,101,125,10,10>>  \* "\\end{quote}\n\n"

\* MatchedFragment as it would be if both signals were required.
MatchedFragment_Both(ref, fileName) ==
  LET relPath == snprintfS(MaxPathLen, <<97,116,116,97,99,104,109,101,110,116,115,47>> \o fileName)  \* "attachments/"
  IN  IF isImageMime(ref.mime) /\ hasImageExtension(fileName)
      THEN [kind |-> "image", emit |-> writeImageInclude(relPath)]
      ELSE [kind |-> "generic", emit |-> writeNonImageAttachment(relPath)]

\* main: the fragment of a matched attachment.
MatchedFragment(ref, fileName) ==
  LET relPath == snprintfS(MaxPathLen, <<97,116,116,97,99,104,109,101,110,116,115,47>> \o fileName)  \* "attachments/"
  IN  IF isImageMime(ref.mime) \/ hasImageExtension(fileName)
      THEN [kind |-> "image", emit |-> writeImageInclude(relPath)]
      ELSE [kind |-> "generic", emit |-> writeNonImageAttachment(relPath)]

\* main: the note written for an attachment that matched nothing.
UnmatchedFragment(escaped) ==
     <<10,92,98,101,103,105,110,123,113,117,111,116,101,125,10>>  \* "\n\\begin{quote}\n"
  \o <<92,116,101,120,116,98,102,123,85,110,109,97,116,99,104,101,100,32,97,116,116,97,99,104,109,101,110,116,32,112,108,97,99,101,104,111,108,100,101,114,58,125,32>>  \* "\\textbf{Unmatched attachment placeholder:} "
  \o escaped
  \o <<92,101,110,100,123,113,117,111,116,101,125,10,10>>  \* "\\end{quote}\n\n"

ParagraphBreak == <<10,10>>  \* "\n\n"

ForcedLineBreak == <<92,92,10>>  \* "\\\\\n"

Preamble ==
     <<92,100,111,99,117,109,101,110,116,99,108,97,115,115,91,97,52,112,97,112,101,114,44,49,49,112,116,93,123,97,114,116,105,99,108,101,125,10>>  \* "\\documentclass[a4paper,11pt]{article}\n"
  \o <<92,117,115,101,112,97,99,107,97,103,101,91,109,97,114,103,105,110,61,50,53,109,109,93,123,103,101,111,109,101,116,114,121,125,10>>  \* "\\usepackage[margin=25mm]{geometry}\n"
  \o <<92,117,115,101,112,97,99,107,97,103,101,123,103,114,97,112,104,105,99,120,125,10>>  \* "\\usepackage{graphicx}\n"
  \o <<92,117,115,101,112,97,99,107,97,103,101,123,102,111,110,116,115,112,101,99,125,10>>  \* "\\usepackage{fontspec}\n"
  \o <<92,115,101,116,109,97,105,110,102,111,110,116,123,76,97,116,105,110,32,77,111,100,101,114,110,32,82,111,109,97,110,125,10>>  \* "\\setmainfont{Latin Modern Roman}\n"
  \o <<92,110,101,119,102,111,110,116,102,97,109,105,108,121,92,101,109,111,106,105,102,111,110,116,123,83,101,103,111,101,32,85,73,32,69,109,111,106,105,125,10>>  \* "\\newfontfamily\\emojifont{Segoe UI Emoji}\n"
  \o <<92,68,101,99,108,97,114,101,84,101,120,116,70,111,110,116,67,111,109,109,97,110,100,123,92,101,109,111,106,105,125,123,92,101,109,111,106,105,102,111,110,116,125,10>>  \* "\\DeclareTextFontCommand{\\emoji}{\\emojifont}\n"
  \o <<92,115,101,116,108,101,110,103,116,104,123,92,101,109,101,114,103,101,110,99,121,115,116,114,101,116,99,104,125,123,51,101,109,125,10>>  \* "\\setlength{\\emergencystretch}{3em}\n"
  \o <<92,98,101,103,105,110,123,100,111,99,117,109,101,110,116,125,10,10>>  \* "\\begin{document}\n\n"

ClosingMarker == <<10,92,101,110,100,123,100,111,99,117,109,101,110,116,125,10>>  \* "\n\\end{document}\n"

(* ---------------------------- the line loop ---------------------------- *)

\* The number of bytes one fgets(line, sizeof(line), in) takes from what is
\* left of the input: through the first newline, at most LineBufSize - 1.
fgetsLen(rest) ==
  LET nl == IndexOf(Take(rest, LineBufSize - 1), 10, 1)
  IN  IF nl > 0 THEN nl ELSE Min(Len(rest), LineBufSize - 1)

\* The buffer after fgets stored chunk and its terminator: the bytes behind
\* them keep what earlier lines left there.
fgetsStore(buf, chunk) == chunk \o <<0>> \o Drop(buf, Len(chunk) + 1)

\* stripPhoneFromFromLine as it would be if it cut one byte late, behind the
\* parenthesis.
stripPhoneFromFromLine_CutLate(buf) ==
  LET s         == CStr(buf)
      colon     == IndexOf(s, 58, 1)
      openParen == IF colon = 0 THEN 0 ELSE IndexOf(s, 40, colon)
  IN  IF colon = 0 \/ openParen = 0 THEN buf
      ELSE trimRight([buf EXCEPT ![openParen + 1] = 0])

stripPhoneFromFromLine(buf) ==
  LET s         == CStr(buf)
      colon     == IndexOf(s, 58, 1)
      openParen == IF colon = 0 THEN 0 ELSE IndexOf(s, 40, colon)
  IN  IF colon = 0 \/ openParen = 0 THEN buf
      ELSE trimRight([buf EXCEPT ![openParen] = 0])

\* What one turn of the while loop of main reports besides its effects.
NoTurn ==
  [kind |-> "none", text |-> <<>>, ref |-> NoRef, idx |-> -1, before |-> EmptyList,
   handed |-> <<>>, escaped |-> FALSE, escPos |-> 0, escTerm |-> 0]

\* The body of the while loop of main on the buffer fgets filled.
LoopBody(list, buf0) ==
  LET b1   == trimRight(buf0)
      s1   == CStr(b1)
      base == [NoTurn EXCEPT !.text = s1, !.before = list]
  IN
  IF startsWithIgnoreCase(s1, <<84,121,112,101,58>>) \/ startsWithIgnoreCase(s1, <<82,101,99,101,105,118,101,100,58>>)  \* "Type:" "Received:"
  THEN [list |-> list, buf |-> b1, emit |-> <<>>, turn |-> [base EXCEPT !.kind = "dropped"]]
  ELSE
    LET b2 == IF startsWithIgnoreCase(s1, <<70,114,111,109,58>>) THEN stripPhoneFromFromLine(b1) ELSE b1  \* "From:"
        s2 == CStr(b2)
    IN
    IF startsWith(s2, <<65,116,116,97,99,104,109,101,110,116,58>>)  \* "Attachment:"
    THEN
      LET ref == parseAttachmentLine(s2)
          idx == Resolve(list, ref)
      IN
      IF idx >= 0
      THEN LET f == MatchedFragment(ref, list.items[idx + 1].fileName)
           IN  [list |-> MarkUsed(list, idx), buf |-> b2, emit |-> f.emit,
                turn |-> [base EXCEPT !.kind = f.kind, !.ref = ref, !.idx = idx]]
      ELSE LET e == writeLatexEscaped(b2)
           IN  [list |-> list, buf |-> b2, emit |-> UnmatchedFragment(e.out),
                turn |-> [base EXCEPT !.kind = "unmatched", !.ref = ref, !.handed = s2,
                                      !.escaped = TRUE, !.escPos = e.pos,
                                      !.escTerm = strlen(b2) + 1]]
    ELSE
      LET b3 == trimRight(b2)
          s3 == CStr(b3)
      IN
      IF s3 = <<>>
      THEN [list |-> list, buf |-> b3, emit |-> ParagraphBreak,
            turn |-> [base EXCEPT !.kind = "parbreak"]]
      ELSE LET e == writeLatexEscaped(b3)
           IN  [list |-> list, buf |-> b3, emit |-> e.out \o ForcedLineBreak,
                turn |-> [base EXCEPT !.kind = "prose", !.handed = s3,
                                      !.escaped = TRUE, !.escPos = e.pos,
                                      !.escTerm = strlen(b3) + 1]]

(* ---------------------------- the output path ------------------------- *)

\* main: outputPath from inputPath.  The text before the last '.' gets .tex
\* unless there is no '.' or the path begins with its only one; then .tex
\* is appended to the whole path.  overrun: strcat wrote behind outputPath
\* (a base of MaxPathLen - 4 to MaxPathLen - 1 bytes).
OutputPath(inputPath) ==
  LET lastDot == LastIndexOf(inputPath, 46)
  IN  IF lastDot > 1
      THEN LET baseLen == IF lastDot - 1 >= MaxPathLen THEN MaxPathLen - 5
                          ELSE lastDot - 1
           IN  [path    |-> Take(inputPath, baseLen) \o <<46,116,101,120>>,  \* ".tex"
                overrun |-> baseLen + 5 > MaxPathLen]
      ELSE [path    |-> snprintfS(MaxPathLen, inputPath \o <<46,116,101,120>>),  \* ".tex"
            overrun |-> FALSE]

(* --------------------------- the environment -------------------------- *)

\* The argument vectors main is started with: without an input path, with
\* one that has another extension, with one that has none, with one that
\* ends in .tex already.
Argvs ==
  { <<<<116,120,116,50,116,101,120>>>>,  \* "txt2tex"
    <<<<116,120,116,50,116,101,120>>, <<99,104,97,116,46,116,120,116>>>>,  \* "txt2tex" "chat.txt"
    <<<<116,120,116,50,116,101,120>>, <<99,104,97,116>>>>,  \* "txt2tex" "chat"
    <<<<116,120,116,50,116,101,120>>, <<99,104,97,116,46,116,101,120>>>> }  \* "txt2tex" "chat.tex"

\* One entry readdir returns, with what stat says of it.
Ent(name, statOk, regular, size) ==
  [name |-> name, statOk |-> statOk, regular |-> regular, size |-> size]

DotEnt == Ent(<<46>>, TRUE, FALSE, 0)  \* "."

DotDotEnt == Ent(<<46,46>>, TRUE, FALSE, 0)  \* ".."

\* A listing one file longer than the first capacity of the list: the files
\* f00 .. f63, of 9 bytes each, then photo.png.
ManyFiles ==
  [i \in 1..FirstCapacity |->
     Ent(<<102>> \o <<48 + ((i - 1) \div 10), 48 + ((i - 1) % 10)>>, TRUE, TRUE, 9)]  \* "f"
  \o <<Ent(<<112,104,111,116,111,46,112,110,103>>, TRUE, TRUE, 5)>>  \* "photo.png"

\* The listings of ./attachments the runs are given, in readdir's order.
Dirs ==
  { <<DotEnt, DotDotEnt>>,
    <<DotEnt, DotDotEnt,
      Ent(<<110,111,116,101,115,46,112,100,102>>, TRUE, TRUE, 5), Ent(<<112,104,111,116,111,46,112,110,103>>, TRUE, TRUE, 5)>>,  \* "notes.pdf" "photo.png"
    <<Ent(<<112,104,111,116,111,46,112,110,103>>, TRUE, TRUE, 5), Ent(<<115,117,98>>, TRUE, FALSE, 5), DotDotEnt,  \* "photo.png" "sub"
      Ent(<<103,111,110,101,46,106,112,103>>, FALSE, TRUE, 5), Ent(<<110,111,116,101,115,46,112,100,102>>, TRUE, TRUE, 5), DotEnt>>,  \* "gone.jpg" "notes.pdf"
    <<DotEnt, DotDotEnt,
      Ent(<<100,111,99,46,116,120,116>>, TRUE, TRUE, 7), Ent(<<73,77,71,95,48,48,48,49,46,74,80,71>>, TRUE, TRUE, 7),  \* "doc.txt" "IMG_0001.JPG"
      Ent(<<99,108,105,112,46,109,112,52>>, TRUE, TRUE, 5)>>,  \* "clip.mp4"
    ManyFiles }

\* The lines the short transcripts are made of.
LinePalette ==
  { <<84,121,112,101,58,32,105,110,99,111,109,105,110,103,10>>,  \* "Type: incoming\n"
    <<114,101,99,101,105,118,101,100,58,32,50,48,50,52,45,48,49,45,48,49,10>>,  \* "received: 2024-01-01\n"
    <<70,114,111,109,58,32,74,97,110,101,32,68,111,101,32,40,43,49,53,53,53,49,50,51,52,53,54,55,41,10>>,  \* "From: Jane Doe (+15551234567)\n"
    <<10>>,  \* "\n"
    <<97,95,98,32,35,49,32,13,10>>,  \* "a_b #1 \r\n"
    <<111,107,32,240,159,152,128,10>>,  \* "ok \xf0\x9f\x98\x80\n"
    <<104,105,224,10>>,  \* "hi\xe0\n"
    <<70,114,111,109,58,32,74,111,240,32,40,43,49,53,41,10>>,  \* "From: Jo\xf0 (+15)\n"
    <<65,116,116,97,99,104,109,101,110,116,58,32,110,111,32,102,105,108,101,110,97,109,101,32,40,105,109,97,103,101,47,106,112,101,103,44,32,53,32,98,121,116,101,115,41,10>>,  \* "Attachment: no filename (image/jpeg, 5 bytes)\n"
    <<65,116,116,97,99,104,109,101,110,116,58,32,110,111,116,101,115,46,112,100,102,32,40,105,109,97,103,101,47,112,110,103,44,32,53,32,98,121,116,101,115,41,10>>,  \* "Attachment: notes.pdf (image/png, 5 bytes)\n"
    <<65,116,116,97,99,104,109,101,110,116,58,32,110,111,32,102,105,108,101,110,97,109,101,32,40,97,112,112,108,105,99,97,116,105,111,110,47,112,100,102,44,32,55,32,98,121,116,101,115,41,10>>,  \* "Attachment: no filename (application/pdf, 7 bytes)\n"
    <<65,116,116,97,99,104,109,101,110,116,58,32,109,105,115,115,105,110,103,46,98,105,110,32,40,97,112,112,108,105,99,97,116,105,111,110,47,122,105,112,44,32,55,32,98,121,116,101,115,41,10>>,  \* "Attachment: missing.bin (application/zip, 7 bytes)\n"
    <<65,116,116,97,99,104,109,101,110,116,58,32,112,104,111,116,111,46,112,110,103,10>>,  \* "Attachment: photo.png\n"
    <<65,116,116,97,99,104,109,101,110,116,58,32,110,111,32,102,105,108,101,110,97,109,101,32,40,105,109,97,103,101,47,112,110,103,44,32,57,57,57,57,57,57,57,57,57,57,57,57,57,57,57,57,57,57,57,57,32,98,121,116,101,115,41,10>>,  \* "Attachment: no filename (image/png, 99999999999999999999 bytes)\n"
    <<65,116,116,97,99,104,109,101,110,116,58,32,73,77,71,95,48,48,48,49,46,74,80,71,32,40,97,112,112,108,105,99,97,116,105,111,110,47,111,99,116,101,116,45,115,116,114,101,97,109,41,10>> }  \* "Attachment: IMG_0001.JPG (application/octet-stream)\n"

ShortFiles ==
  { Flatten(f) : f \in UNION { [1..n -> LinePalette] : n \in 0..MaxLines } }

Rep(c, n) == [i \in 1..n |-> c]

\* Transcripts with a line that does not fit the read buffer: a line of
\* LineBufSize - 1 letters; a Type: line three bytes longer than the buffer
\* takes; a line whose last character, a 4-byte one, starts on the last byte
\* the buffer takes.
LongFiles ==
  { Rep(97, LineBufSize - 1) \o <<10>>,  \* "\n"
    <<84,121,112,101,58,32>> \o Rep(97, LineBufSize - 4) \o <<10>>,  \* "Type: " "\n"
    Rep(97, LineBufSize - 2) \o <<240,159,152,128,10>> }  \* "\xf0\x9f\x98\x80\n"

Files == ShortFiles \cup LongFiles

(* ------------------------------ the state ------------------------------ *)

VARIABLES
  pc,        \* where main is: "start", "load", "openIn", "openOut", "loop", "exit"
  argv,      \* the argument vector main was started with
  open,      \* the handles held: "dir", "in", "out"
  acquired,  \* every handle ever obtained
  outExists, \* the output file has been created
  out,       \* the bytes written to the output file
  exitCode,  \* the exit status; -1 while main runs
  cause,     \* the path main left by
  list,      \* the AttachmentList
  infile,    \* the bytes the input file held when it was opened
  truncated, \* the input file has been emptied since
  pos,       \* how many bytes have been read from it
  line,      \* char line[8192]: the bytes written to it so far
  frags,     \* one record per turn of the while loop, in order
  last       \* the report of the latest turn

vars ==
  <<pc, argv, open, acquired, outExists, out, exitCode, cause, list, infile,
    truncated, pos, line, frags, last>>

argc == Len(argv)

\* argv[1]
inputPath == argv[2]

\* What the input stream can still deliver, from the start of the file on.
Readable == IF truncated THEN <<>> ELSE infile

Init ==
  /\ pc = "start"
  /\ argv \in Argvs
  /\ open = {}
  /\ acquired = {}
  /\ outExists = FALSE
  /\ out = <<>>
  /\ exitCode = -1
  /\ cause = "running"
  /\ list = EmptyList
  /\ infile = <<>>
  /\ truncated = FALSE
  /\ pos = 0
  /\ line = <<>>
  /\ frags = <<>>
  /\ last = NoTurn

Exit(code, why) ==
  /\ pc' = "exit"
  /\ exitCode' = code
  /\ cause' = why

\* main: the argument check.
CheckArgs ==
  /\ pc = "start"
  /\ IF argc < 2
     THEN Exit(1, "usage")
     ELSE pc' = "load" /\ UNCHANGED <<exitCode, cause>>
  /\ UNCHANGED <<argv, open, acquired, outExists, out, list, infile, truncated, pos, line,
                  frags, last>>

\* main: attachmentListInit and loadAttachmentsDir.  opendir fails, or the
\* listing is read to its end, or realloc fails on the way and fatal() exits
\* with the directory still open and the list as far as it had got.
LoadAttachmentsDir ==
  /\ pc = "load"
  /\ \E dirOk \in BOOLEAN, ents \in Dirs, okCalls \in 0..MaxReallocs :
       IF ~dirOk
       THEN /\ Exit(1, "opendir")
            /\ list' = EmptyList
            /\ UNCHANGED <<open, acquired>>
       ELSE LET r == loadLoop(ents, 1, EmptyList, okCalls)
            IN  IF r.oom
                THEN /\ Exit(1, "oom")
                     /\ list' = r.list
                     /\ open' = open \cup {"dir"}
                     /\ acquired' = acquired \cup {"dir"}
                ELSE /\ pc' = "openIn"
                     /\ list' = r.list
                     /\ open' = open
                     /\ acquired' = acquired \cup {"dir"}
                     /\ UNCHANGED <<exitCode, cause>>
  /\ UNCHANGED <<argv, outExists, out, infile, truncated, pos, line, frags, last>>

\* main: fopen(inputPath, "rb").
OpenInput ==
  /\ pc = "openIn"
  /\ \E inOk \in BOOLEAN, file \in Files :
       IF ~inOk
       THEN /\ Exit(1, "fopen-in")
            /\ list' = attachmentListFree(list)
            /\ UNCHANGED <<open, acquired, infile>>
       ELSE /\ pc' = "openOut"
            /\ infile' = file
            /\ open' = open \cup {"in"}
            /\ acquired' = acquired \cup {"in"}
            /\ UNCHANGED <<exitCode, cause, list>>
  /\ UNCHANGED <<argv, outExists, out, truncated, pos, line, frags, last>>

\* main: fopen(outputPath, "wb") and the preamble.  "wb" empties the file
\* it opens: when outputPath is inputPath that is the input file, of which
\* nothing has been read yet.
OpenOutput ==
  /\ pc = "openOut"
  /\ \E outOk \in BOOLEAN :
       IF ~outOk
       THEN /\ Exit(1, "fopen-out")
            /\ open' = open \ {"in"}
            /\ list' = attachmentListFree(list)
            /\ UNCHANGED <<acquired, outExists, out, truncated>>
       ELSE /\ pc' = "loop"
            /\ open' = open \cup {"out"}
            /\ acquired' = acquired \cup {"out"}
            /\ outExists' = TRUE
            /\ truncated' = (OutputPath(inputPath).path = inputPath)
            /\ out' = Preamble
            /\ UNCHANGED <<exitCode, cause, list>>
  /\ UNCHANGED <<argv, infile, pos, line, frags, last>>

\* main: one turn of while(fgets(...)): the line is read, classified,
\* resolved and written.
ProcessLine ==
  /\ pc = "loop"
  /\ pos < Len(Readable)
  /\ \E n \in {fgetsLen(Drop(Readable, pos))} :
       \E r \in {LoopBody(list, fgetsStore(line, SubSeq(Readable, pos + 1, pos + n)))} :
         /\ pos' = pos + n
         /\ line' = r.buf
         /\ list' = r.list
         /\ out' = out \o r.emit
         /\ last' = r.turn
         /\ frags' = Append(frags, [start |-> pos, kind |-> r.turn.kind,
                                    idx |-> r.turn.idx, emit |-> r.emit])
  /\ UNCHANGED <<pc, argv, open, acquired, outExists, exitCode, cause, infile, truncated>>

\* Finish as it would be if main returned at the end of the input without
\* writing the closing marker.
Finish_NoMarker ==
  /\ pc = "loop"
  /\ pos = Len(Readable)
  /\ open' = open \ {"out", "in"}
  /\ list' = attachmentListFree(list)
  /\ Exit(0, "done")
  /\ UNCHANGED <<argv, acquired, outExists, out, infile, truncated, pos, line, frags, last>>

\* main: fgets returned NULL; the closing marker, the handles, the list.
Finish ==
  /\ pc = "loop"
  /\ pos = Len(Readable)
  /\ out' = out \o ClosingMarker
  /\ open' = open \ {"out", "in"}
  /\ list' = attachmentListFree(list)
  /\ Exit(0, "done")
  /\ UNCHANGED <<argv, acquired, outExists, infile, truncated, pos, line, frags, last>>

Next ==
  \/ CheckArgs
  \/ LoadAttachmentsDir
  \/ OpenInput
  \/ OpenOutput
  \/ ProcessLine
  \/ Finish

Spec == Init /\ [][Next]_vars

(* ------------------------------- claims -------------------------------- *)

\* The turn of the loop just taken was an Attachment: line.
AttachmentTurn == last.kind \in {"image", "generic", "unmatched"}

\* The entry of the catalog, as it was before the latest turn, at C index i.
Before(i) == last.before.items[i + 1]

BeforeIdx == 0..(last.before.count - 1)

\* The unconsumed entries, before the latest turn, of the declared name.
NameCands == {i \in BeforeIdx : ~Before(i).used /\ Before(i).fileName = last.ref.name}

\* The unconsumed entries, before the latest turn, of the declared size.
SizeCands == {i \in BeforeIdx : ~Before(i).used /\ Before(i).fileSize = last.ref.bytes}

\* Those of them with a recognized image extension.
ImageSizeCands == {i \in SizeCands : hasImageExtension(Before(i).fileName)}

\* The fragment the latest turn wrote.
LastEmit == frags[Len(frags)].emit

EndsWith(s, t) == Len(s) >= Len(t) /\ SubSeq(s, Len(s) - Len(t) + 1, Len(s)) = t

\* C1: no two Attachment: lines of a run resolve to the same catalog entry,
\* by name or by size, and the entry a line resolves to was not consumed
\* before that line.
C1_ConsumptionExclusivity ==
  /\ \A i, j \in DOMAIN frags :
       (i < j /\ frags[i].idx >= 0 /\ frags[j].idx >= 0) => frags[i].idx # frags[j].idx
  /\ last.idx >= 0 => ~Before(last.idx).used

\* C1 witness: two identical Attachment: lines, one after the other, both
\* resolved.
C1_Witness ==
  /\ Len(frags) = 2
  /\ frags[1].idx >= 0
  /\ frags[2].idx >= 0
  /\ SubSeq(infile, 1, frags[2].start) = SubSeq(infile, frags[2].start + 1, pos)

\* C2: a reference whose name is that of some unconsumed entry resolves to
\* the first such entry in catalog order, whatever its declared size matches.
C2_NamePriority ==
  (AttachmentTurn /\ last.ref.hasName /\ NameCands # {}) => last.idx = MinOf(NameCands)

\* C2 witness: the name is that of a non-image entry, and another unconsumed
\* entry, an image, has the declared size under an image/* mime.
C2_Witness ==
  /\ AttachmentTurn
  /\ last.ref.hasName
  /\ last.idx \in NameCands
  /\ ~hasImageExtension(Before(last.idx).fileName)
  /\ isImageMime(last.ref.mime)
  /\ \E j \in ImageSizeCands : j # last.idx

\* C3: without a name match, a reference with a declared size resolves under
\* an image/* mime to the first unconsumed entry of that size with an image
\* extension; failing that, or under another mime, to the first unconsumed
\* entry of that size; failing that, or without a declared size, to nothing.
C3_SizeTiers ==
  (AttachmentTurn /\ (~last.ref.hasName \/ NameCands = {})) =>
    last.idx = IF last.ref.bytes.neg THEN -1
               ELSE IF isImageMime(last.ref.mime) /\ ImageSizeCands # {}
                    THEN MinOf(ImageSizeCands)
               ELSE IF SizeCands # {} THEN MinOf(SizeCands)
               ELSE -1

\* C3 witness: under an image/* mime the image entry of the declared size is
\* taken although an earlier unconsumed entry has that size too.
C3_Witness ==
  /\ AttachmentTurn
  /\ ~last.ref.hasName
  /\ isImageMime(last.ref.mime)
  /\ last.idx \in ImageSizeCands
  /\ \E j \in SizeCands : j < last.idx

\* The set of offsets at which the lines of the input begin.
LineStarts(f) ==
  (IF f = <<>> THEN {} ELSE {0}) \cup {i \in 1..(Len(f) - 1) : f[i] = 10}

\* The line of the input that begins at offset k starts with prefix, case
\* ignored.
LineHasPrefix(f, k, prefix) ==
  /\ Len(f) - k >= Len(prefix)
  /\ \A i \in 1..Len(prefix) : tolower(f[k + i]) = tolower(prefix[i])

\* C4: once the run has ended normally, the output is the preamble, then the
\* fragments in input order, then the closing marker, where the lines that
\* begin with Type: or Received: give no fragment and every other line of
\* the input gives exactly one.
C4_OutputOrder ==
  (pc = "exit" /\ exitCode = 0) =>
    /\ out = Preamble \o Flatten([k \in DOMAIN frags |-> frags[k].emit]) \o ClosingMarker
    /\ {frags[k].start : k \in DOMAIN frags} = LineStarts(infile)
    /\ \A k \in DOMAIN frags :
         /\ \A j \in DOMAIN frags : j < k => frags[j].start < frags[k].start
         /\ (frags[k].emit = <<>>) <=>
              (\/ LineHasPrefix(infile, frags[k].start, <<84,121,112,101,58>>)  \* "Type:"
               \/ LineHasPrefix(infile, frags[k].start, <<82,101,99,101,105,118,101,100,58>>))  \* "Received:"

\* The line the latest turn classified begins with From:, case ignored.
FromTurn == last.kind # "none" /\ startsWithIgnoreCase(last.text, <<70,114,111,109,58>>)  \* "From:"

\* The text of a From: line up to its first '(' without the white space
\* before it; the whole text when it has no '('.
Redacted(t) ==
  LET k == IndexOf(t, 40, 1)
      u == IF k = 0 THEN t ELSE Take(t, k - 1)
      K == {i \in 1..Len(u) : ~isspace(u[i])}
  IN  IF k = 0 THEN t
      ELSE Take(u, IF K = {} THEN 0 ELSE CHOOSE i \in K : \A j \in K : j <= i)

\* C5 as stated: the line From: Jane Doe (+15551234567) gives the fragment
\* Jane Doe followed by the forced line break.
C5_AsStated ==
  (last.kind # "none" /\ last.text = <<70,114,111,109,58,32,74,97,110,101,32,68,111,101,32,40,43,49,53,53,53,49,50,51,52,53,54,55,41>>) =>  \* "From: Jane Doe (+15551234567)"
    LastEmit = <<74,97,110,101,32,68,111,101>> \o ForcedLineBreak  \* "Jane Doe"

\* C5 as amended: a From: line is cut at its first '(' and right-trimmed;
\* what is left, the From: prefix included, is handed to the escaper as
\* prose and the forced line break follows; the line
\* From: Jane Doe (+15551234567) gives From: Jane Doe and the line break.
C5_FromRedaction ==
  FromTurn =>
    /\ last.kind = "prose"
    /\ last.handed = Redacted(last.text)
    /\ CStr(line) = Redacted(last.text)
    /\ EndsWith(LastEmit, ForcedLineBreak)
    /\ last.text = <<70,114,111,109,58,32,74,97,110,101,32,68,111,101,32,40,43,49,53,53,53,49,50,51,52,53,54,55,41>> =>  \* "From: Jane Doe (+15551234567)"
         LastEmit = <<70,114,111,109,58,32,74,97,110,101,32,68,111,101>> \o ForcedLineBreak  \* "From: Jane Doe"

\* C5 witness: the From: line of the scenario has been processed and its
\* parenthetical is gone from the output.
C5_Witness ==
  /\ FromTurn
  /\ last.text = <<70,114,111,109,58,32,74,97,110,101,32,68,111,101,32,40,43,49,53,53,53,49,50,51,52,53,54,55,41>>  \* "From: Jane Doe (+15551234567)"
  /\ last.handed = <<70,114,111,109,58,32,74,97,110,101,32,68,111,101>>  \* "From: Jane Doe"
  /\ EndsWith(out, <<68,111,101>> \o ForcedLineBreak)  \* "Doe"

\* C6: a matched attachment is written as an image include exactly when its
\* declared mime starts with image/ or the matched file name has an image
\* extension, and as the generic attachment block otherwise.
C6_RenderingChoice ==
  last.idx >= 0 =>
    LET name    == Before(last.idx).fileName
        relPath == <<97,116,116,97,99,104,109,101,110,116,115,47>> \o name  \* "attachments/"
    IN  IF startsWith(last.ref.mime, <<105,109,97,103,101,47>>) \/ hasImageExtension(name)  \* "image/"
        THEN LastEmit = writeImageInclude(relPath) /\ last.kind = "image"
        ELSE LastEmit = writeNonImageAttachment(relPath) /\ last.kind = "generic"

\* C6 witness: a file without an image extension, matched by name, is
\* written as an image on the strength of the mime alone.
C6_Witness ==
  /\ last.idx >= 0
  /\ last.kind = "image"
  /\ last.idx \in NameCands
  /\ isImageMime(last.ref.mime)
  /\ ~hasImageExtension(Before(last.idx).fileName)

\* C7: a run that ends on a missing argument, an unopenable directory, an
\* unopenable input or an uncreatable output ends with exit code 1 and has
\* written nothing; a directory that cannot be opened leaves no output file;
\* exit code 0 is given only after the closing marker.
C7_FatalBeforeOutput ==
  /\ pc = "exit" => exitCode \in {0, 1}
  /\ (pc = "exit" /\ cause \in {"usage", "opendir", "fopen-in", "fopen-out"}) =>
       (exitCode = 1 /\ out = <<>> /\ ~outExists)
  /\ exitCode = 1 => (out = <<>> /\ ~outExists)
  /\ (outExists /\ pc = "exit") => exitCode = 0
  /\ exitCode = 0 => (EndsWith(out, ClosingMarker) /\ cause = "done")
  /\ (pc = "loop" \/ outExists) => "dir" \in acquired

\* C7 witness: the output file could not be created, after the directory was
\* listed and the input opened.
C7_Witness ==
  /\ pc = "exit"
  /\ cause = "fopen-out"
  /\ acquired = {"dir", "in"}
  /\ exitCode = 1

\* C8: when the process has terminated, every handle it had obtained has
\* been released.
C8_HandlesReleased == pc = "exit" => open = {}

\* C9: a turn of the line loop leaves the catalog as it is unless the line is
\* an Attachment: line that resolves, and then exactly the resolved entry's
\* flag goes from unset to set; no flag is ever cleared, no entry is added or
\* removed and no name or size changes.
CatalogFrame ==
  /\ list'.count = list.count
  /\ list'.capacity = list.capacity
  /\ Len(list'.items) = Len(list.items)
  /\ \A i \in 1..Len(list.items) :
       /\ list'.items[i].fileName = list.items[i].fileName
       /\ list'.items[i].fileSize = list.items[i].fileSize
       /\ list.items[i].used => list'.items[i].used
  /\ IF last'.kind \in {"image", "generic"}
     THEN /\ ~list.items[last'.idx + 1].used
          /\ list'.items[last'.idx + 1].used
          /\ \A i \in 1..Len(list.items) :
               i # last'.idx + 1 => list'.items[i] = list.items[i]
     ELSE list' = list

C9_CatalogFrame == [][(pc = "loop" /\ pc' = "loop") => CatalogFrame]_vars

\* C9 witness: a line has resolved to one entry of a catalog that holds
\* another entry of the same size, still unconsumed.
C9_Witness ==
  /\ pc = "loop"
  /\ last.kind \in {"image", "generic"}
  /\ list.items[last.idx + 1].used
  /\ \E i \in 1..Len(list.items) :
       /\ ~list.items[i].used
       /\ list.items[i].fileSize = list.items[last.idx + 1].fileSize

\* C10: the escaper's cursor stops on the terminator of the line it was
\* handed: no character it consumes reaches past the end of the line.
C10_EscaperWithinLine == last.escaped => last.escPos = last.escTerm

====
